---- MODULE Spec2Model ----
(***************************************************************************)
(* A model of g_d3dmath.h: the 4x4 matrix algebra (Matrix4,                *)
(* DeterminantMatrix4, InverseMatrix4, MultiplyMatrix4, TransposeMatrix4), *)
(* the matrix builders the viewport pipeline uses, and ProjectViewport /   *)
(* UnprojectViewport.                                                      *)
(*                                                                         *)
(* A C float is modelled as an exact rational <<numerator, denominator>>   *)
(* in lowest terms with a positive denominator; a division by zero gives   *)
(* NonFinite (the Inf/NaN family), which every later operation propagates. *)
(* Rounding is therefore not modelled: equalities below are the exact      *)
(* ("over the rationals") readings of the tolerance statements.            *)
(* A matrix4_t is a function 0..15 -> float, indexed as the source's n[].  *)
(***************************************************************************)
EXTENDS Integers, Sequences, FiniteSets, TLC

\* ------------------------------------------------------------------ float

Abs(i) == IF i < 0 THEN -i ELSE i

RECURSIVE Gcd(_, _)
Gcd(i, j) == IF j = 0 THEN i ELSE Gcd(j, i % j)

NonFinite == <<0, 0>>

Flt(num, den) ==
    IF den = 0 THEN NonFinite
    ELSE IF den = 1 THEN <<num, 1>>
    ELSE LET g == Gcd(Abs(num), Abs(den))
         IN  IF den < 0 THEN <<(-num) \div g, (-den) \div g>>
                        ELSE <<num \div g, den \div g>>

F(i) == <<i, 1>>

Zero == F(0)

One == F(1)

Two == F(2)

IsFinite(x) == x[2] # 0

FAdd(x, y) ==
    IF ~IsFinite(x) \/ ~IsFinite(y) THEN NonFinite
    ELSE Flt(x[1] * y[2] + y[1] * x[2], x[2] * y[2])

FSub(x, y) ==
    IF ~IsFinite(x) \/ ~IsFinite(y) THEN NonFinite
    ELSE Flt(x[1] * y[2] - y[1] * x[2], x[2] * y[2])

FMul(x, y) ==
    IF ~IsFinite(x) \/ ~IsFinite(y) THEN NonFinite
    ELSE Flt(x[1] * y[1], x[2] * y[2])

FDiv(x, y) ==
    IF ~IsFinite(x) \/ ~IsFinite(y) THEN NonFinite
    ELSE Flt(x[1] * y[2], x[2] * y[1])

\* Comparisons; as with NaN, one involving a non-finite value is false.
FLe(x, y) == IsFinite(x) /\ IsFinite(y) /\ x[1] * y[2] <= y[1] * x[2]

FLt(x, y) == IsFinite(x) /\ IsFinite(y) /\ x[1] * y[2] < y[1] * x[2]

FNeg(x) == IF ~IsFinite(x) THEN NonFinite ELSE <<-x[1], x[2]>>

\* The largest natural whose square is at most n.
ISqrt(n) == CHOOSE r \in 0..n : r * r <= n /\ n < (r + 1) * (r + 1)

IsSquare(x) ==
    IsFinite(x) /\ x[1] >= 0 /\ ISqrt(x[1]) * ISqrt(x[1]) = x[1]
                /\ ISqrt(x[2]) * ISqrt(x[2]) = x[2]

\* sqrtf: exact on the square of a rational, which is every root the
\* specifications below take (their inputs are chosen so); elsewhere rounded
\* down in numerator and denominator.
Sqrtf(x) ==
    IF ~IsFinite(x) \/ x[1] < 0 THEN NonFinite
    ELSE Flt(ISqrt(x[1]), ISqrt(x[2]))

\* An angle is <<p, q>>, standing for the angle whose half has tangent q/p
\* (<<0, 1>> is pi); its cosine and sine are then rationals on the unit
\* circle: <<1, 0>> is 0, <<1, 1>> is pi/2, <<1, -1>> is -pi/2.
Cosf(angle) ==
    Flt(angle[1] * angle[1] - angle[2] * angle[2],
        angle[1] * angle[1] + angle[2] * angle[2])

Sinf(angle) ==
    Flt(2 * angle[1] * angle[2], angle[1] * angle[1] + angle[2] * angle[2])

\* Infix spellings of the three operators above, so that the translated
\* expressions read term for term like the source's.
x \oplus y == FAdd(x, y)
x \ominus y == FSub(x, y)
x \otimes y == FMul(x, y)

\* -------------------------------------------------------------- rectangle

\* rect_t is a union of the long fields l, t, r, b with x, y, w, h: the
\* record keeps the first names, and x, y, w, h read l, t, r, b.
RectangleXY(x, y, w, h) == [l |-> x, t |-> y, r |-> w, b |-> h]

RectangleLT(l, t, r, b) == [l |-> l, t |-> t, r |-> r, b |-> b]

ContainsRectangleXY(rect, x, y) ==
    (rect.l <= x /\ x < rect.l + rect.r) /\ (rect.t <= y /\ y < rect.t + rect.b)

ContainsRectangleLT(rect, x, y) ==
    (rect.l <= x /\ x < rect.r) /\ (rect.t <= y /\ y < rect.b)

OutsideRectangleXY(rect, x, y) ==
    x < rect.l \/ x > rect.l + rect.r \/ y < rect.t \/ y > rect.t + rect.b

OutsideRectangleLT(rect, x, y) ==
    x < rect.l \/ x > rect.r \/ y < rect.t \/ y > rect.b

\* --------------------------------------------------------------- vector3

Vector3(x, y, z) == [x |-> x, y |-> y, z |-> z]

Vector3Default == Vector3(Zero, Zero, Zero)

AddVector3(a, b) ==
    Vector3(a.x \oplus b.x, a.y \oplus b.y, a.z \oplus b.z)

CrossVector3(a, b) ==
    Vector3(a.y \otimes b.z \ominus a.z \otimes b.y,
            a.z \otimes b.x \ominus a.x \otimes b.z,
            a.x \otimes b.y \ominus a.y \otimes b.x)

DotVector3(a, b) ==
    a.x \otimes b.x \oplus a.y \otimes b.y \oplus a.z \otimes b.z

LengthVector3(a) == Sqrtf(DotVector3(a, a))

NormalizeVector3(a) ==
    IF a.x # Zero \/ a.y # Zero \/ a.z # Zero
    THEN LET l == Sqrtf(DotVector3(a, a))
         IN  Vector3(a.x \otimes FDiv(One, l), a.y \otimes FDiv(One, l),
                     a.z \otimes FDiv(One, l))
    ELSE Vector3Default

ScaleVector3(a, s) ==
    Vector3(a.x \otimes s, a.y \otimes s, a.z \otimes s)

SubtractVector3(a, b) ==
    Vector3(a.x \ominus b.x, a.y \ominus b.y, a.z \ominus b.z)

Vector4(x, y, z, w) == [x |-> x, y |-> y, z |-> z, w |-> w]

Vector4Default == Vector4(Zero, Zero, Zero, Zero)

AddVector4(a, b) ==
    Vector4(a.x \oplus b.x, a.y \oplus b.y, a.z \oplus b.z, a.w \oplus b.w)

DotVector4(a, b) ==
    a.x \otimes b.x \oplus a.y \otimes b.y \oplus a.z \otimes b.z
        \oplus a.w \otimes b.w

\* The test reads the freshly constructed v, not the argument a.
NormalizeVector4(a) ==
    LET v == Vector4Default
    IN  IF v.x # Zero \/ v.y # Zero \/ v.z # Zero \/ v.w # Zero
        THEN LET l == Sqrtf(DotVector4(v, v))
             IN  Vector4(a.x \otimes FDiv(One, l), a.y \otimes FDiv(One, l),
                         a.z \otimes FDiv(One, l), a.w \otimes FDiv(One, l))
        ELSE v

SubtractVector4(a, b) ==
    Vector4(a.x \ominus b.x, a.y \ominus b.y, a.z \ominus b.z, a.w \oplus b.w)

TransformVector3(v, m) ==
    Vector4(
        v.x \otimes m[0] \oplus v.y \otimes m[4] \oplus v.z \otimes m[8] \oplus m[12],
        v.x \otimes m[1] \oplus v.y \otimes m[5] \oplus v.z \otimes m[9] \oplus m[13],
        v.x \otimes m[2] \oplus v.y \otimes m[6] \oplus v.z \otimes m[10] \oplus m[14],
        v.x \otimes m[3] \oplus v.y \otimes m[7] \oplus v.z \otimes m[11] \oplus m[15])

\* Fault variant of TransformVector3Coord: the column-vector convention.
TransformVector3CoordColumn(v, m) ==
    Vector3(
        v.x \otimes m[0] \oplus v.y \otimes m[1] \oplus v.z \otimes m[2] \oplus m[3],
        v.x \otimes m[4] \oplus v.y \otimes m[5] \oplus v.z \otimes m[6] \oplus m[7],
        v.x \otimes m[8] \oplus v.y \otimes m[9] \oplus v.z \otimes m[10] \oplus m[11])

TransformVector3Coord(v, m) ==
    Vector3(
        v.x \otimes m[0] \oplus v.y \otimes m[4] \oplus v.z \otimes m[8] \oplus m[12],
        v.x \otimes m[1] \oplus v.y \otimes m[5] \oplus v.z \otimes m[9] \oplus m[13],
        v.x \otimes m[2] \oplus v.y \otimes m[6] \oplus v.z \otimes m[10] \oplus m[14])

TransformVector3Normal(v, m) ==
    Vector3(
        v.x \otimes m[0] \oplus v.y \otimes m[4] \oplus v.z \otimes m[8] \oplus m[12],
        v.x \otimes m[1] \oplus v.y \otimes m[5] \oplus v.z \otimes m[9] \oplus m[13],
        v.x \otimes m[2] \oplus v.y \otimes m[6] \oplus v.z \otimes m[10] \oplus m[14])

\* ----------------------------------------------------------------- plane

Plane(a, b, c, d) == [a |-> a, b |-> b, c |-> c, d |-> d]

PlaneDefault == Plane(Zero, Zero, Zero, Zero)

DotPlaneCoordinate(p, v) ==
    DotVector4(Vector4(p.a, p.b, p.c, p.d), Vector4(v.x, v.y, v.z, One))

\* Fault variant of FromPointNormalPlane: d is not negated.
FromPointNormalPlanePlusD(point, normal) ==
    LET p == PlaneDefault
    IN  [p EXCEPT !.a = normal.x, !.b = normal.y, !.c = normal.z,
                  !.d = DotVector3(normal, point)]

FromPointNormalPlane(point, normal) ==
    LET p == PlaneDefault
    IN  [p EXCEPT !.a = normal.x, !.b = normal.y, !.c = normal.z,
                  !.d = FNeg(DotVector3(normal, point))]

FromPointsPlane(v0, v1, v2) ==
    LET n == CrossVector3(SubtractVector3(v1, v0), SubtractVector3(v2, v0))
    IN  FromPointNormalPlane(v0, n)

LineIntersectPlane(plane, p0, p1) ==
    LET swap == FLt(LengthVector3(p1), LengthVector3(p0))
        v0 == IF swap THEN p1 ELSE p0
        v1 == IF swap THEN p0 ELSE p1
        d0 == IF swap THEN LengthVector3(p1) ELSE LengthVector3(p0)
        d1 == IF swap THEN LengthVector3(p0) ELSE LengthVector3(p1)
    IN  IF FLt(d0, plane.d) /\ FLt(plane.d, d1)
        THEN LET v2 == Vector3(plane.a, plane.b, plane.c)
                 v3 == SubtractVector3(v1, v0)
                 e0 == DotVector3(v2, v0) \oplus plane.d
                 e1 == LengthVector3(v3)
                 d2 == FDiv(e0, e1)
             IN  AddVector3(v0, ScaleVector3(v3, d2))
        ELSE IF FLe(plane.d \ominus d0, plane.d \ominus d1) THEN v0 ELSE v1

NormalizePlane(p) ==
    LET v == NormalizeVector3(Vector3(p.a, p.b, p.c))
    IN  Plane(v.x, v.y, v.z, p.d)

\* --------------------------------------------------------------- matrix4

Matrix4(e11, e12, e13, e14, e21, e22, e23, e24, e31, e32, e33, e34, e41, e42, e43, e44) ==
    LET t == << e11, e12, e13, e14, e21, e22, e23, e24,
                e31, e32, e33, e34, e41, e42, e43, e44 >>
    IN  [i \in 0..15 |-> t[i + 1]]

\* Fault variant of Matrix4Default: the last default argument is 0.0f.
Matrix4DefaultZeroW ==
    Matrix4(One,  Zero, Zero, Zero,
            Zero, One,  Zero, Zero,
            Zero, Zero, One,  Zero,
            Zero, Zero, Zero, Zero)

\* Matrix4() with every argument defaulted: the identity.
Matrix4Default ==
    Matrix4(One,  Zero, Zero, Zero,
            Zero, One,  Zero, Zero,
            Zero, Zero, One,  Zero,
            Zero, Zero, Zero, One)

DeterminantMatrix4(m) ==
    m[0] \otimes m[5] \otimes m[10] \otimes m[15]
    \oplus m[4] \otimes m[9] \otimes m[14] \otimes m[3]
    \oplus m[8] \otimes m[13] \otimes m[2] \otimes m[7]
    \oplus m[12] \otimes m[1] \otimes m[6] \otimes m[11]
    \ominus m[12] \otimes m[9] \otimes m[6] \otimes m[3]
    \oplus m[8] \otimes m[5] \otimes m[2] \otimes m[15]
    \oplus m[4] \otimes m[1] \otimes m[14] \otimes m[11]
    \oplus m[0] \otimes m[13] \otimes m[10] \otimes m[7]

\* The sixteen entries InverseMatrix4 accumulates into its zeroed matrix a
\* before it looks at the determinant.
InverseMatrix4Cofactors(m) ==
    LET
        n00 == Zero \oplus
            (m[5] \otimes m[10] \otimes m[15]
             \oplus m[9] \otimes m[14] \otimes m[7]
             \oplus m[13] \otimes m[6] \otimes m[11]
             \ominus m[13] \otimes m[10] \otimes m[7]
             \ominus m[9] \otimes m[6] \otimes m[15]
             \ominus m[5] \otimes m[14] \otimes m[11])
        n01 == Zero \ominus
            (m[1] \otimes m[10] \otimes m[15]
             \oplus m[9] \otimes m[14] \otimes m[3]
             \oplus m[13] \otimes m[2] \otimes m[11]
             \ominus m[13] \otimes m[10] \otimes m[3]
             \ominus m[9] \otimes m[2] \otimes m[15]
             \ominus m[1] \otimes m[14] \otimes m[11])
        n02 == Zero \oplus
            (m[1] \otimes m[6] \otimes m[15]
             \oplus m[5] \otimes m[14] \otimes m[3]
             \oplus m[13] \otimes m[2] \otimes m[7]
             \ominus m[13] \otimes m[6] \otimes m[3]
             \ominus m[5] \otimes m[2] \otimes m[15]
             \ominus m[1] \otimes m[14] \otimes m[7])
        n03 == Zero \ominus
            (m[1] \otimes m[6] \otimes m[14]
             \oplus m[5] \otimes m[10] \otimes m[3]
             \oplus m[9] \otimes m[2] \otimes m[7]
             \ominus m[9] \otimes m[6] \otimes m[3]
             \ominus m[5] \otimes m[2] \otimes m[11]
             \ominus m[1] \otimes m[10] \otimes m[7])
        n04 == Zero \ominus
            (m[4] \otimes m[10] \otimes m[15]
             \oplus m[8] \otimes m[14] \otimes m[7]
             \oplus m[12] \otimes m[6] \otimes m[11]
             \ominus m[12] \otimes m[10] \otimes m[7]
             \ominus m[8] \otimes m[6] \otimes m[15]
             \ominus m[4] \otimes m[14] \otimes m[11])
        n05 == Zero \oplus
            (m[0] \otimes m[10] \otimes m[15]
             \oplus m[8] \otimes m[14] \otimes m[3]
             \oplus m[12] \otimes m[2] \otimes m[11]
             \ominus m[12] \otimes m[10] \otimes m[3]
             \ominus m[8] \otimes m[2] \otimes m[15]
             \ominus m[0] \otimes m[14] \otimes m[11])
        n06 == Zero \ominus
            (m[0] \otimes m[6] \otimes m[15]
             \oplus m[4] \otimes m[14] \otimes m[3]
             \oplus m[12] \otimes m[2] \otimes m[7]
             \ominus m[12] \otimes m[6] \otimes m[3]
             \ominus m[4] \otimes m[2] \otimes m[15]
             \ominus m[0] \otimes m[14] \otimes m[7])
        n07 == Zero \oplus
            (m[0] \otimes m[6] \otimes m[11]
             \oplus m[4] \otimes m[10] \otimes m[3]
             \oplus m[8] \otimes m[2] \otimes m[7]
             \ominus m[8] \otimes m[6] \otimes m[3]
             \ominus m[4] \otimes m[2] \otimes m[11]
             \ominus m[0] \otimes m[10] \otimes m[7])
        n08 == Zero \oplus
            (m[4] \otimes m[9] \otimes m[15]
             \oplus m[8] \otimes m[13] \otimes m[7]
             \oplus m[12] \otimes m[5] \otimes m[11]
             \ominus m[12] \otimes m[9] \otimes m[7]
             \ominus m[8] \otimes m[5] \otimes m[15]
             \ominus m[4] \otimes m[13] \otimes m[11])
        n09 == Zero \ominus
            (m[0] \otimes m[9] \otimes m[15]
             \oplus m[8] \otimes m[13] \otimes m[3]
             \oplus m[12] \otimes m[1] \otimes m[11]
             \ominus m[12] \otimes m[9] \otimes m[3]
             \ominus m[8] \otimes m[1] \otimes m[15]
             \ominus m[0] \otimes m[13] \otimes m[11])
        n10 == Zero \oplus
            (m[0] \otimes m[5] \otimes m[15]
             \oplus m[4] \otimes m[13] \otimes m[3]
             \oplus m[12] \otimes m[1] \otimes m[7]
             \ominus m[12] \otimes m[5] \otimes m[3]
             \ominus m[4] \otimes m[1] \otimes m[15]
             \ominus m[0] \otimes m[13] \otimes m[7])
        n11 == Zero \ominus
            (m[0] \otimes m[5] \otimes m[11]
             \oplus m[4] \otimes m[9] \otimes m[3]
             \oplus m[8] \otimes m[1] \otimes m[7]
             \ominus m[8] \otimes m[5] \otimes m[3]
             \ominus m[4] \otimes m[1] \otimes m[11]
             \ominus m[0] \otimes m[9] \otimes m[7])
        n12 == Zero \ominus
            (m[4] \otimes m[9] \otimes m[14]
             \oplus m[8] \otimes m[13] \otimes m[6]
             \oplus m[12] \otimes m[5] \otimes m[10]
             \ominus m[12] \otimes m[9] \otimes m[6]
             \ominus m[8] \otimes m[5] \otimes m[14]
             \ominus m[4] \otimes m[13] \otimes m[10])
        n13 == Zero \oplus
            (m[0] \otimes m[9] \otimes m[14]
             \oplus m[8] \otimes m[13] \otimes m[2]
             \oplus m[12] \otimes m[1] \otimes m[10]
             \ominus m[12] \otimes m[9] \otimes m[2]
             \ominus m[8] \otimes m[1] \otimes m[14]
             \ominus m[0] \otimes m[13] \otimes m[10])
        n14 == Zero \ominus
            (m[0] \otimes m[5] \otimes m[14]
             \oplus m[4] \otimes m[13] \otimes m[2]
             \oplus m[12] \otimes m[1] \otimes m[6]
             \ominus m[12] \otimes m[5] \otimes m[2]
             \ominus m[4] \otimes m[1] \otimes m[14]
             \ominus m[0] \otimes m[13] \otimes m[6])
        n15 == Zero \oplus
            (m[0] \otimes m[5] \otimes m[10]
             \oplus m[4] \otimes m[9] \otimes m[2]
             \oplus m[8] \otimes m[1] \otimes m[6]
             \ominus m[8] \otimes m[5] \otimes m[2]
             \ominus m[4] \otimes m[1] \otimes m[10]
             \ominus m[0] \otimes m[9] \otimes m[6])
    IN  Matrix4(n00, n01, n02, n03, n04, n05, n06, n07,
                n08, n09, n10, n11, n12, n13, n14, n15)

\* Fault variant of InverseMatrix4: the line d = 1.0f / d is missing, so the
\* entries are multiplied by the determinant itself.
InverseMatrix4ScaleByDet(m) ==
    LET a == InverseMatrix4Cofactors(m)
        d == DeterminantMatrix4(m)
    IN  IF d = Zero THEN Matrix4Default
        ELSE [i \in 0..15 |-> a[i] \otimes d]

InverseMatrix4(m) ==
    LET a == InverseMatrix4Cofactors(m)
        d == DeterminantMatrix4(m)
    IN  IF d = Zero THEN Matrix4Default
        ELSE LET r == FDiv(One, d)
             IN  [i \in 0..15 |-> a[i] \otimes r]

\* Fault variant of MultiplyMatrix4: the column-vector convention, b times a.
MultiplyMatrix4Swapped(a, b) ==
    [ idx \in 0..15 |->
        LET i == idx \div 4
            j == idx % 4
        IN  b[4 * i] \otimes a[j] \oplus b[4 * i + 1] \otimes a[4 + j]
            \oplus b[4 * i + 2] \otimes a[8 + j] \oplus b[4 * i + 3] \otimes a[12 + j] ]

MultiplyMatrix4(a, b) ==
    Matrix4(
        a[0] \otimes b[0] \oplus a[1] \otimes b[4] \oplus a[2] \otimes b[8]
          \oplus a[3] \otimes b[12],
        a[0] \otimes b[1] \oplus a[1] \otimes b[5] \oplus a[2] \otimes b[9]
          \oplus a[3] \otimes b[13],
        a[0] \otimes b[2] \oplus a[1] \otimes b[6]
          \oplus a[2] \otimes b[10] \oplus a[3] \otimes b[14],
        a[0] \otimes b[3] \oplus a[1] \otimes b[7]
          \oplus a[2] \otimes b[11] \oplus a[3] \otimes b[15],
        a[4] \otimes b[0] \oplus a[5] \otimes b[4] \oplus a[6] \otimes b[8]
          \oplus a[7] \otimes b[12],
        a[4] \otimes b[1] \oplus a[5] \otimes b[5] \oplus a[6] \otimes b[9]
          \oplus a[7] \otimes b[13],
        a[4] \otimes b[2] \oplus a[5] \otimes b[6]
          \oplus a[6] \otimes b[10] \oplus a[7] \otimes b[14],
        a[4] \otimes b[3] \oplus a[5] \otimes b[7]
          \oplus a[6] \otimes b[11] \oplus a[7] \otimes b[15],
        a[8] \otimes b[0] \oplus a[9] \otimes b[4]
          \oplus a[10] \otimes b[8] \oplus a[11] \otimes b[12],
        a[8] \otimes b[1] \oplus a[9] \otimes b[5]
          \oplus a[10] \otimes b[9] \oplus a[11] \otimes b[13],
        a[8] \otimes b[2] \oplus a[9] \otimes b[6]
          \oplus a[10] \otimes b[10] \oplus a[11] \otimes b[14],
        a[8] \otimes b[3] \oplus a[9] \otimes b[7]
          \oplus a[10] \otimes b[11] \oplus a[11] \otimes b[15],
        a[12] \otimes b[0] \oplus a[13] \otimes b[4]
          \oplus a[14] \otimes b[8] \oplus a[15] \otimes b[12],
        a[12] \otimes b[1] \oplus a[13] \otimes b[5]
          \oplus a[14] \otimes b[9] \oplus a[15] \otimes b[13],
        a[12] \otimes b[2] \oplus a[13] \otimes b[6]
          \oplus a[14] \otimes b[10] \oplus a[15] \otimes b[14],
        a[12] \otimes b[3] \oplus a[13] \otimes b[7]
          \oplus a[14] \otimes b[11] \oplus a[15] \otimes b[15])

\* Fault variant of TransposeMatrix4: entries 11 and 14 are not exchanged.
TransposeMatrix4Typo(m) ==
    Matrix4(m[0], m[4], m[8],  m[12],
            m[1], m[5], m[9],  m[13],
            m[2], m[6], m[10], m[11],
            m[3], m[7], m[14], m[15])

TransposeMatrix4(m) ==
    Matrix4(m[0], m[4], m[8],  m[12],
            m[1], m[5], m[9],  m[13],
            m[2], m[6], m[10], m[14],
            m[3], m[7], m[11], m[15])

OrthographicLHMatrix4(w, h, zn, zf) ==
    Matrix4(FDiv(Two, w), Zero,         Zero,                     Zero,
            Zero,         FDiv(Two, h), Zero,                     Zero,
            Zero,         Zero,         FDiv(One, zf \ominus zn), Zero,
            Zero,         Zero,         FDiv(zn, zn \ominus zf),  One)

OrthographicOffCenterLHMatrix4(l, r, t, b, zn, zf) ==
    Matrix4(FDiv(Two, r \ominus l), Zero, Zero, Zero,
            Zero, FDiv(Two, t \ominus b), Zero, Zero,
            Zero, Zero, FDiv(One, zf \ominus zn), Zero,
            FDiv(l \oplus r, l \ominus r), FDiv(t \oplus b, b \ominus t),
                FDiv(zn, zn \ominus zf), One)

\* Fault variant of LookAtLHMatrix4: the view axis points from the target
\* to the eye.
LookAtLHMatrix4Reversed(eye, at, up) ==
    LET za == NormalizeVector3(SubtractVector3(eye, at))
        xa == NormalizeVector3(CrossVector3(up, za))
        ya == CrossVector3(za, xa)
    IN  Matrix4(xa.x, ya.x, za.x, Zero,
                xa.y, ya.y, za.y, Zero,
                xa.z, ya.z, za.z, Zero,
                FNeg(DotVector3(xa, eye)), FNeg(DotVector3(ya, eye)),
                FNeg(DotVector3(za, eye)), One)

LookAtLHMatrix4(eye, at, up) ==
    LET za == NormalizeVector3(SubtractVector3(at, eye))
        xa == NormalizeVector3(CrossVector3(up, za))
        ya == CrossVector3(za, xa)
    IN  Matrix4(xa.x, ya.x, za.x, Zero,
                xa.y, ya.y, za.y, Zero,
                xa.z, ya.z, za.z, Zero,
                FNeg(DotVector3(xa, eye)), FNeg(DotVector3(ya, eye)),
                FNeg(DotVector3(za, eye)), One)

OrthographicRHMatrix4(w, h, zn, zf) ==
    Matrix4(FDiv(Two, w), Zero,         Zero,                      Zero,
            Zero,         FDiv(Two, h), Zero,                      Zero,
            Zero,         Zero,         FDiv(One, zn \ominus zf),  Zero,
            Zero,         Zero,         FDiv(zn, zf \ominus zn),   One)

PerspectiveRHMatrix4(w, h, zn, zf) ==
    Matrix4(FDiv(Two, w), Zero,         Zero,                          Zero,
            Zero,         FDiv(Two, h), Zero,                          Zero,
            Zero,         Zero,         FDiv(zf, zn \ominus zf),       One,
            Zero,         Zero,
                FDiv(FNeg(zn) \otimes zf, zn \ominus zf),             Zero)

PerspectiveOffCenterLHMatrix4(l, r, t, b, zn, zf) ==
    Matrix4(FDiv(Two \otimes zn, r \ominus l), Zero, Zero, Zero,
            Zero, FDiv(Two \otimes zn, b \ominus t), Zero, Zero,
            FDiv(l \oplus r, r \ominus l), FDiv(t \oplus b, b \ominus t),
                FDiv(zf, zf \ominus zn), One,
            Zero, Zero, FDiv(FNeg(zn) \otimes zf, zf \ominus zn), Zero)

PerspectiveLHMatrix4(w, h, zn, zf) ==
    Matrix4(FDiv(Two, w), Zero,         Zero,                          Zero,
            Zero,         FDiv(Two, h), Zero,                          Zero,
            Zero,         Zero,         FDiv(zf, zf \ominus zn),       One,
            Zero,         Zero,
                FDiv((Zero \ominus zn) \otimes zf, zf \ominus zn),     Zero)

ScalingMatrix4(x, y, z) ==
    [Matrix4Default EXCEPT ![0] = x, ![5] = y, ![10] = z]

ReflectMatrix4(plane) ==
    LET p == NormalizePlane(plane)
        ta == F(-2) \otimes p.a
        tb == F(-2) \otimes p.b
        tc == F(-2) \otimes p.c
    IN  Matrix4(ta \otimes p.a \oplus One, tb \otimes p.a, tc \otimes p.a, Zero,
                ta \otimes p.b, tb \otimes p.b \oplus One, tc \otimes p.b, Zero,
                ta \otimes p.c, tb \otimes p.c, tc \otimes p.c \oplus One, Zero,
                ta \otimes p.d, tb \otimes p.d, tc \otimes p.d, One)

\* Fault variant of RotationXMatrix4: n[9] is not negated.
RotationXMatrix4NoNegate(angle) ==
    LET m == Matrix4Default
        m5 == Cosf(angle)
        m6 == Sinf(angle)
    IN  [m EXCEPT ![5] = m5, ![6] = m6, ![9] = m6, ![10] = m5]

RotationXMatrix4(angle) ==
    LET m == Matrix4Default
        m5 == Cosf(angle)
        m6 == Sinf(angle)
    IN  [m EXCEPT ![5] = m5, ![6] = m6, ![9] = FNeg(m6), ![10] = m5]

\* Fault variant of RotationYMatrix4: cosine and sine are exchanged.
RotationYMatrix4SinCos(angle) ==
    LET m == Matrix4Default
        m0 == Sinf(angle)
        m2 == FNeg(Cosf(angle))
    IN  [m EXCEPT ![0] = m0, ![2] = m2, ![8] = FNeg(m2), ![10] = m0]

RotationYMatrix4(angle) ==
    LET m == Matrix4Default
        m0 == Cosf(angle)
        m2 == FNeg(Sinf(angle))
    IN  [m EXCEPT ![0] = m0, ![2] = m2, ![8] = FNeg(m2), ![10] = m0]

RotationZMatrix4(angle) ==
    LET m == Matrix4Default
        m0 == Cosf(angle)
        m1 == Sinf(angle)
    IN  [m EXCEPT ![0] = m0, ![1] = m1, ![4] = FNeg(m1), ![5] = m0]

\* Fault variant of RotationYawPitchRollMatrix4: yaw and roll exchange
\* their axes.
RotationYawPitchRollMatrix4Exchanged(y, p, r) ==
    MultiplyMatrix4(RotationZMatrix4(y),
        MultiplyMatrix4(RotationXMatrix4(p), RotationYMatrix4(r)))

RotationYawPitchRollMatrix4(y, p, r) ==
    MultiplyMatrix4(RotationZMatrix4(r),
        MultiplyMatrix4(RotationXMatrix4(p), RotationYMatrix4(y)))

TranslationMatrix4(x, y, z) ==
    [Matrix4Default EXCEPT ![12] = x, ![13] = y, ![14] = z]

\* -------------------------------------------------------------- viewport

Transformation3DMatrix4(scalingCenter, scale, rotationCenter, angle, translation) ==
    LET r0 == MultiplyMatrix4(
                  InverseMatrix4(TranslationMatrix4(rotationCenter.x,
                                     rotationCenter.y, rotationCenter.z)),
                  RotationZMatrix4(angle))
        r == MultiplyMatrix4(r0, TranslationMatrix4(rotationCenter.x,
                                     rotationCenter.y, rotationCenter.z))
        s0 == MultiplyMatrix4(
                  InverseMatrix4(TranslationMatrix4(scalingCenter.x,
                                     scalingCenter.y, scalingCenter.z)),
                  ScalingMatrix4(scale.x, scale.y, Zero))
        s == MultiplyMatrix4(s0, TranslationMatrix4(scalingCenter.x,
                                     scalingCenter.y, scalingCenter.z))
        t == TranslationMatrix4(translation.x, translation.y, translation.z)
    IN  MultiplyMatrix4(MultiplyMatrix4(r, s), t)

\* x, y, w, h are uint32_t (naturals here, far below the wrap at 2^32);
\* minZ and maxZ are floats.
Viewport(x, y, w, h, minZ, maxZ) ==
    [x |-> x, y |-> y, w |-> w, h |-> h, minZ |-> minZ, maxZ |-> maxZ]

\* Viewport() with every argument defaulted.
ViewportDefault == Viewport(0, 0, 0, 0, Zero, Zero)

\* The matrix both viewport functions build from the viewport's fields.
ViewportMatrix(viewport) ==
    OrthographicOffCenterLHMatrix4(
        F(viewport.x), F(viewport.x + viewport.w),
        F(viewport.y), F(viewport.y + viewport.h),
        viewport.minZ, viewport.maxZ)

ProjectViewport(v, viewport, projection, view, world) ==
    LET t == MultiplyMatrix4(ViewportMatrix(viewport),
                 MultiplyMatrix4(projection, MultiplyMatrix4(view, world)))
    IN  TransformVector3Coord(v, t)

UnprojectViewport(v, viewport, projection, view, world) ==
    LET t == MultiplyMatrix4(world,
                 MultiplyMatrix4(view,
                 MultiplyMatrix4(projection, ViewportMatrix(viewport))))
    IN  TransformVector3Coord(v, t)

\* ------------------------------------------------------------------ state

VARIABLES
    mat,      \* the matrix4_t the caller has built and passes as operand
    rhs,      \* the other operand of the last MultiplyMatrix4 call
    out,      \* the matrix4_t the last call returned
    det,      \* the float the last DeterminantMatrix4 call returned
    op,       \* the last call made ("none" while the caller builds mat)
    edits,    \* how many entries of mat the caller has assigned
    pt,       \* the vector3_t passed to ProjectViewport
    vp,       \* the viewport_t passed to the viewport functions
    projM,    \* their projection matrix
    viewM,    \* their view matrix
    worldM,   \* their world matrix
    scr,      \* the vector3_t the last call returning one returned
    yaw,      \* the angles passed to the rotation builders
    pitch,
    roll,
    pln,      \* the plane_t passed to the plane functions
    pt1,      \* a second vector3_t argument (line end, look-at target, offset)
    upv,      \* the up vector passed to LookAtLHMatrix4
    frustum,  \* the w, h, zn, zf passed to PerspectiveLHMatrix4
    outPlane, \* the plane_t the last NormalizePlane call returned
    clip,     \* the vector4_t the last call returning one returned
    va,       \* the vector4_t operands of the vector4 functions
    vb,
    rc,       \* the rect_t passed to the rectangle tests
    cell,     \* the point <<x, y>> passed to them
    flags,    \* what the containment and the outside test returned
    xform     \* the arguments of Transformation3DMatrix4 but the translation

vars ==
    <<mat, rhs, out, det, op, edits, pt, vp, projM, viewM, worldM, scr,
      yaw, pitch, roll, pln, pt1, upv, frustum, outPlane, clip,
      va, vb, rc, cell, flags, xform>>

matrixVars == <<mat, rhs, out, det, edits>>

viewportVars == <<pt, vp, projM, viewM, worldM, scr>>

viewportArgs == <<vp, projM, viewM, worldM>>

geomVars == <<yaw, pitch, roll, pln, pt1, upv, frustum, outPlane, clip>>

\* The angle 0.
AngleZero == <<1, 0>>

\* The values of the variables a specification does not use.
MatrixIdle ==
    /\ mat = Matrix4Default
    /\ rhs = Matrix4Default
    /\ out = Matrix4Default
    /\ det = Zero
    /\ edits = 0

ViewportIdle ==
    /\ vp = ViewportDefault
    /\ projM = Matrix4Default
    /\ viewM = Matrix4Default
    /\ worldM = Matrix4Default

RotationIdle == yaw = AngleZero /\ pitch = AngleZero /\ roll = AngleZero

PlaneIdle == pln = PlaneDefault /\ outPlane = PlaneDefault

LookAtIdle == pt1 = Vector3Default /\ upv = Vector3Default

PerspectiveIdle ==
    /\ frustum = [w |-> One, h |-> One, zn |-> Zero, zf |-> One]
    /\ clip = Vector4(Zero, Zero, Zero, Zero)

GeomIdle == RotationIdle /\ PlaneIdle /\ LookAtIdle /\ PerspectiveIdle

extraVars == <<va, vb, rc, cell, flags, xform>>

Vector4Idle ==
    /\ va = Vector4(Zero, Zero, Zero, Zero)
    /\ vb = Vector4(Zero, Zero, Zero, Zero)

RectangleIdle ==
    /\ rc = RectangleLT(0, 0, 0, 0)
    /\ cell = <<0, 0>>
    /\ flags = [contains |-> FALSE, outside |-> FALSE]

Transformation3DIdle ==
    xform = [scalingCenter |-> Vector3Default, scale |-> Vector3Default,
             rotationCenter |-> Vector3Default, angle |-> AngleZero]

ExtraIdle == Vector4Idle /\ RectangleIdle /\ Transformation3DIdle

\* ----------------------------------------------------------------- bounds

\* The caller assigns at most MaxEdits entries of the identity.
MaxEdits == 2

\* Assigned entries and point coordinates are integers in -1..MaxVal.
MaxVal == 1

\* Viewport origins are in 0..MaxOrigin and extents in 1..MaxExtent.
MaxOrigin == 1

MaxExtent == 2

EntryValues == {-1} \cup (0..MaxVal)

\* Second operands of MultiplyMatrix4: the identity, a dense matrix with
\* sixteen different entries, and a translation.
Operands ==
    { Matrix4Default,
      Matrix4(F(1),  F(2),  F(3),  F(4),  F(5),  F(6),  F(7),  F(8),
              F(9),  F(10), F(11), F(12), F(13), F(14), F(15), F(16)),
      TranslationMatrix4(F(1), F(2), F(3)) }

Viewports ==
    {ViewportDefault} \cup
    { Viewport(x, y, w, h, Zero, One) :
        x \in 0..MaxOrigin, y \in 0..MaxOrigin, w \in 1..MaxExtent, h \in 1..MaxExtent }

Points ==
    { Vector3(F(x), F(y), F(z)) : x \in EntryValues, y \in EntryValues, z \in 0..MaxVal }

Projections ==
    { Matrix4Default,
      OrthographicLHMatrix4(Two, Two, Zero, Two),
      PerspectiveLHMatrix4(Two, Two, One, F(3)) }

Views == { Matrix4Default, TranslationMatrix4(Zero, Zero, Two) }

Worlds == { Matrix4Default, TranslationMatrix4(One, Two, Zero), ScalingMatrix4(Two, Two, Two) }

\* ---------------------------------------------- the matrix specification

Init ==
    /\ mat = Matrix4Default
    /\ rhs = Matrix4Default
    /\ out = Matrix4Default
    /\ det = Zero
    /\ op = "none"
    /\ edits = 0
    /\ pt = Vector3(Zero, Zero, Zero)
    /\ vp = ViewportDefault
    /\ projM = Matrix4Default
    /\ viewM = Matrix4Default
    /\ worldM = Matrix4Default
    /\ scr = Vector3(Zero, Zero, Zero)
    /\ GeomIdle
    /\ ExtraIdle

\* m.n[i] = val, by the caller
SetEntry(i, val) ==
    /\ op = "none"
    /\ edits < MaxEdits
    /\ mat[i] # F(val)
    /\ mat' = [mat EXCEPT ![i] = F(val)]
    /\ edits' = edits + 1
    /\ UNCHANGED <<rhs, out, det, op, viewportVars, geomVars, extraVars>>

CallDeterminant ==
    /\ op = "none"
    /\ det' = DeterminantMatrix4(mat)
    /\ op' = "Determinant"
    /\ UNCHANGED <<mat, rhs, out, edits, viewportVars, geomVars, extraVars>>

CallInverse ==
    /\ op = "none"
    /\ out' = InverseMatrix4(mat)
    /\ op' = "Inverse"
    /\ UNCHANGED <<mat, rhs, det, edits, viewportVars, geomVars, extraVars>>

\* MultiplyMatrix4(m, InverseMatrix4(m))
CallMultiplyByInverse ==
    /\ op = "Inverse"
    /\ out' = MultiplyMatrix4(mat, out)
    /\ op' = "MultiplyByInverse"
    /\ UNCHANGED <<mat, rhs, det, edits, viewportVars, geomVars, extraVars>>

\* MultiplyMatrix4(mat, b)
CallMultiply(b) ==
    /\ op = "none"
    /\ rhs' = b
    /\ out' = MultiplyMatrix4(mat, b)
    /\ op' = "Multiply"
    /\ UNCHANGED <<mat, det, edits, viewportVars, geomVars, extraVars>>

\* MultiplyMatrix4(a, mat)
CallMultiplyLeft(a) ==
    /\ op = "none"
    /\ rhs' = a
    /\ out' = MultiplyMatrix4(a, mat)
    /\ op' = "MultiplyLeft"
    /\ UNCHANGED <<mat, det, edits, viewportVars, geomVars, extraVars>>

CallTranspose ==
    /\ op = "none"
    /\ out' = TransposeMatrix4(mat)
    /\ op' = "Transpose"
    /\ UNCHANGED <<mat, rhs, det, edits, viewportVars, geomVars, extraVars>>

\* TransposeMatrix4(TransposeMatrix4(m))
CallTransposeAgain ==
    /\ op = "Transpose"
    /\ out' = TransposeMatrix4(out)
    /\ op' = "TransposeTwice"
    /\ UNCHANGED <<mat, rhs, det, edits, viewportVars, geomVars, extraVars>>

Next ==
    \/ \E i \in 0..15, val \in EntryValues : SetEntry(i, val)
    \/ CallDeterminant
    \/ CallInverse
    \/ CallMultiplyByInverse
    \/ \E b \in Operands : CallMultiply(b)
    \/ \E a \in Operands : CallMultiplyLeft(a)
    \/ CallTranspose
    \/ CallTransposeAgain

Spec == Init /\ [][Next]_vars

\* -------------------------------------------- the viewport specification

InitViewport ==
    /\ mat = Matrix4Default
    /\ rhs = Matrix4Default
    /\ out = Matrix4Default
    /\ det = Zero
    /\ op = "none"
    /\ edits = 0
    /\ pt \in Points
    /\ vp \in Viewports
    /\ projM \in Projections
    /\ viewM \in Views
    /\ worldM \in Worlds
    /\ scr = Vector3(Zero, Zero, Zero)
    /\ GeomIdle
    /\ ExtraIdle

CallProject ==
    /\ op = "none"
    /\ scr' = ProjectViewport(pt, vp, projM, viewM, worldM)
    /\ op' = "Project"
    /\ UNCHANGED <<matrixVars, pt, vp, projM, viewM, worldM, geomVars, extraVars>>

\* UnprojectViewport(ProjectViewport(p, ...), ...)
CallUnproject ==
    /\ op = "Project"
    /\ scr' = UnprojectViewport(scr, vp, projM, viewM, worldM)
    /\ op' = "Unproject"
    /\ UNCHANGED <<matrixVars, pt, vp, projM, viewM, worldM, geomVars, extraVars>>

NextViewport ==
    \/ CallProject
    \/ CallUnproject

SpecViewport == InitViewport /\ [][NextViewport]_vars

\* -------------------------------------------- the rotation specification

\* Angles have half-angle tangent q/p with p, |q| <= MaxAngleParam.
MaxAngleParam == 2

Angles ==
    { <<p, q>> : p \in 0..MaxAngleParam, q \in (-MaxAngleParam)..MaxAngleParam }
        \cap { t \in Nat \X Int : Gcd(t[1], Abs(t[2])) = 1 /\ (t[1] > 0 \/ t[2] = 1) }

InitRotation ==
    /\ MatrixIdle
    /\ ViewportIdle
    /\ op = "none"
    /\ pt = Vector3Default
    /\ scr = Vector3Default
    /\ yaw \in Angles
    /\ pitch \in Angles
    /\ roll \in Angles
    /\ PlaneIdle
    /\ LookAtIdle
    /\ PerspectiveIdle
    /\ ExtraIdle

\* RotationXMatrix4(pitch)
CallRotationX ==
    /\ op = "none"
    /\ out' = RotationXMatrix4(pitch)
    /\ op' = "RotationX"
    /\ UNCHANGED <<mat, rhs, det, edits, viewportVars, geomVars, extraVars>>

\* DeterminantMatrix4(RotationXMatrix4(pitch))
CallDeterminantOfRotationX ==
    /\ op = "RotationX"
    /\ det' = DeterminantMatrix4(out)
    /\ op' = "RotationXDeterminant"
    /\ UNCHANGED <<mat, rhs, out, edits, viewportVars, geomVars, extraVars>>

\* MultiplyMatrix4(r, TransposeMatrix4(r)) with r = RotationXMatrix4(pitch)
CallRotationXTimesTranspose ==
    /\ op = "RotationX"
    /\ mat' = out
    /\ rhs' = TransposeMatrix4(out)
    /\ out' = MultiplyMatrix4(out, TransposeMatrix4(out))
    /\ op' = "RotationXTimesTranspose"
    /\ UNCHANGED <<det, edits, viewportVars, geomVars, extraVars>>

\* RotationYawPitchRollMatrix4(yaw, pitch, roll)
CallRotationYawPitchRoll ==
    /\ op = "none"
    /\ out' = RotationYawPitchRollMatrix4(yaw, pitch, roll)
    /\ op' = "RotationYawPitchRoll"
    /\ UNCHANGED <<mat, rhs, det, edits, viewportVars, geomVars, extraVars>>

NextRotation ==
    \/ CallRotationX
    \/ CallDeterminantOfRotationX
    \/ CallRotationXTimesTranspose
    \/ CallRotationYawPitchRoll

SpecRotation == InitRotation /\ [][NextRotation]_vars

\* ----------------------------------------------- the plane specification

\* Point and normal coordinates are integers in -MaxCoord..MaxCoord.
MaxCoord == 2

Coords == (-MaxCoord)..MaxCoord

\* Every point of the grid, and those whose length is rational, so that
\* sqrtf is exact on them.
GridPoints == { Vector3(F(x), F(y), F(z)) : x \in Coords, y \in Coords, z \in Coords }

GeomPoints == { v \in GridPoints : IsSquare(DotVector3(v, v)) }

\* Line ends whose distance is rational as well.
LineEnds ==
    { e \in GeomPoints \X GeomPoints :
        IsSquare(DotVector3(SubtractVector3(e[2], e[1]), SubtractVector3(e[2], e[1]))) }

Planes ==
    { Plane(n.x, n.y, n.z, F(d)) :
        n \in { v \in GeomPoints : FLe(Zero, v.x) /\ FLe(Zero, v.y) /\ FLe(Zero, v.z) },
        d \in (-2 * MaxCoord)..(2 * MaxCoord) }

InitPlane ==
    /\ MatrixIdle
    /\ ViewportIdle
    /\ op = "none"
    /\ pt = Vector3Default
    /\ scr = Vector3Default
    /\ RotationIdle
    /\ pln \in Planes
    /\ outPlane = PlaneDefault
    /\ LookAtIdle
    /\ PerspectiveIdle
    /\ ExtraIdle

\* NormalizePlane(pln)
CallNormalizePlane ==
    /\ op = "none"
    /\ outPlane' = NormalizePlane(pln)
    /\ op' = "NormalizePlane"
    /\ UNCHANGED <<matrixVars, viewportVars, yaw, pitch, roll, pln, pt1, upv,
                   frustum, clip, extraVars>>

\* LineIntersectPlane(pln, p0, p1)
CallLineIntersectPlane(p0, p1) ==
    /\ op = "none"
    /\ pt' = p0
    /\ pt1' = p1
    /\ scr' = LineIntersectPlane(pln, p0, p1)
    /\ op' = "LineIntersectPlane"
    /\ UNCHANGED <<matrixVars, viewportArgs, yaw, pitch, roll, pln, upv,
                   frustum, outPlane, clip, extraVars>>

NextPlane ==
    \/ CallNormalizePlane
    \/ \E e \in LineEnds : CallLineIntersectPlane(e[1], e[2])

SpecPlane == InitPlane /\ [][NextPlane]_vars

\* ------------------------------------------- the transform specification

\* Affine matrices: the identity, a translation, a scaling, the rotations
\* about z, and rotations about x followed by a translation.
Affines ==
    { Matrix4Default,
      TranslationMatrix4(F(1), F(2), F(3)),
      ScalingMatrix4(Two, F(3), F(-1)) }
    \cup { RotationZMatrix4(a) : a \in Angles }
    \cup { MultiplyMatrix4(RotationXMatrix4(a), TranslationMatrix4(F(1), F(2), F(3))) :
              a \in Angles }

InitTransform ==
    /\ MatrixIdle
    /\ ViewportIdle
    /\ op = "none"
    /\ pt \in Points
    /\ scr = Vector3Default
    /\ GeomIdle
    /\ ExtraIdle

\* TransformVector3Coord(pt, MultiplyMatrix4(a, b))
CallTransformByProduct(a, b) ==
    /\ op = "none"
    /\ mat' = a
    /\ rhs' = b
    /\ out' = MultiplyMatrix4(a, b)
    /\ scr' = TransformVector3Coord(pt, MultiplyMatrix4(a, b))
    /\ op' = "TransformByProduct"
    /\ UNCHANGED <<det, edits, pt, viewportArgs, geomVars, extraVars>>

\* TransformVector3Coord(pt, TranslationMatrix4(t.x, t.y, t.z))
CallTransformByTranslation(t) ==
    /\ op = "none"
    /\ pt1' = t
    /\ out' = TranslationMatrix4(t.x, t.y, t.z)
    /\ scr' = TransformVector3Coord(pt, TranslationMatrix4(t.x, t.y, t.z))
    /\ op' = "TransformByTranslation"
    /\ UNCHANGED <<mat, rhs, det, edits, pt, viewportArgs, yaw, pitch, roll,
                   pln, upv, frustum, outPlane, clip, extraVars>>

NextTransform ==
    \/ \E a \in Affines, b \in Affines : CallTransformByProduct(a, b)
    \/ \E t \in GridPoints : CallTransformByTranslation(t)

SpecTransform == InitTransform /\ [][NextTransform]_vars

\* --------------------------------------------- the look-at specification

\* Grid points on a coordinate axis.
AxisPoints ==
    { v \in GridPoints :
        \/ v.x = Zero /\ v.y = Zero
        \/ v.x = Zero /\ v.z = Zero
        \/ v.y = Zero /\ v.z = Zero }

\* <<eye, at, up>> for which both roots LookAtLHMatrix4 takes are exact.
LookAtInputs ==
    { t \in AxisPoints \X AxisPoints \X AxisPoints :
        LET dir == SubtractVector3(t[2], t[1])
            xdir == CrossVector3(t[3], NormalizeVector3(dir))
        IN  IsSquare(DotVector3(dir, dir)) /\ IsSquare(DotVector3(xdir, xdir)) }

InitLookAt ==
    /\ MatrixIdle
    /\ ViewportIdle
    /\ op = "none"
    /\ \E t \in LookAtInputs : pt = t[1] /\ pt1 = t[2] /\ upv = t[3]
    /\ scr = Vector3Default
    /\ RotationIdle
    /\ PlaneIdle
    /\ PerspectiveIdle
    /\ ExtraIdle

\* LookAtLHMatrix4(eye, at, up)
CallLookAtLH ==
    /\ op = "none"
    /\ out' = LookAtLHMatrix4(pt, pt1, upv)
    /\ op' = "LookAtLH"
    /\ UNCHANGED <<mat, rhs, det, edits, viewportVars, geomVars, extraVars>>

\* TransformVector3Coord(eye, LookAtLHMatrix4(eye, at, up))
CallTransformEye ==
    /\ op = "LookAtLH"
    /\ scr' = TransformVector3Coord(pt, out)
    /\ op' = "LookAtEye"
    /\ UNCHANGED <<matrixVars, pt, viewportArgs, geomVars, extraVars>>

\* TransformVector3Coord(at, LookAtLHMatrix4(eye, at, up))
CallTransformTarget ==
    /\ op = "LookAtLH"
    /\ scr' = TransformVector3Coord(pt1, out)
    /\ op' = "LookAtTarget"
    /\ UNCHANGED <<matrixVars, pt, viewportArgs, geomVars, extraVars>>

NextLookAt ==
    \/ CallLookAtLH
    \/ CallTransformEye
    \/ CallTransformTarget

SpecLookAt == InitLookAt /\ [][NextLookAt]_vars

\* ------------------------------------------ the perspective specification

\* Near planes are at 1..MaxNear and far planes 1..MaxDepth beyond them.
MaxNear == 2

MaxDepth == 2

Frustums ==
    { [w |-> F(a), h |-> F(b), zn |-> F(n), zf |-> F(n + k)] :
        a \in 1..MaxExtent, b \in 1..MaxExtent, n \in 1..MaxNear, k \in 1..MaxDepth }

InitPerspective ==
    /\ MatrixIdle
    /\ ViewportIdle
    /\ op = "none"
    /\ pt = Vector3Default
    /\ scr = Vector3Default
    /\ RotationIdle
    /\ PlaneIdle
    /\ LookAtIdle
    /\ frustum \in Frustums
    /\ clip = Vector4(Zero, Zero, Zero, Zero)
    /\ ExtraIdle

\* PerspectiveLHMatrix4(w, h, zn, zf)
CallPerspectiveLH ==
    /\ op = "none"
    /\ out' = PerspectiveLHMatrix4(frustum.w, frustum.h, frustum.zn, frustum.zf)
    /\ op' = "PerspectiveLH"
    /\ UNCHANGED <<mat, rhs, det, edits, viewportVars, geomVars, extraVars>>

\* TransformVector3 of the near-plane corner (sx * w/2, sy * h/2, zn)
CallTransformNearCorner(sx, sy) ==
    /\ op = "PerspectiveLH"
    /\ pt' = Vector3(F(sx) \otimes FDiv(frustum.w, Two),
                     F(sy) \otimes FDiv(frustum.h, Two), frustum.zn)
    /\ clip' = TransformVector3(pt', out)
    /\ op' = "NearCorner"
    /\ UNCHANGED <<matrixVars, viewportArgs, scr, yaw, pitch, roll, pln, pt1,
                   upv, frustum, outPlane, extraVars>>

\* TransformVector3 of the point (x, y, zf) of the far plane
CallTransformFarPoint(x, y) ==
    /\ op = "PerspectiveLH"
    /\ pt' = Vector3(F(x), F(y), frustum.zf)
    /\ clip' = TransformVector3(pt', out)
    /\ op' = "FarPoint"
    /\ UNCHANGED <<matrixVars, viewportArgs, scr, yaw, pitch, roll, pln, pt1,
                   upv, frustum, outPlane, extraVars>>

NextPerspective ==
    \/ CallPerspectiveLH
    \/ \E sx \in {-1, 1}, sy \in {-1, 1} : CallTransformNearCorner(sx, sy)
    \/ \E x \in EntryValues, y \in EntryValues : CallTransformFarPoint(x, y)

SpecPerspective == InitPerspective /\ [][NextPerspective]_vars

\* --------------------------- the right-handed projection specification

InitProjectionRH ==
    /\ MatrixIdle
    /\ ViewportIdle
    /\ op = "none"
    /\ pt = Vector3Default
    /\ scr = Vector3Default
    /\ RotationIdle
    /\ PlaneIdle
    /\ LookAtIdle
    /\ frustum \in Frustums
    /\ clip = Vector4(Zero, Zero, Zero, Zero)
    /\ ExtraIdle

\* PerspectiveRHMatrix4(w, h, zn, zf)
CallPerspectiveRH ==
    /\ op = "none"
    /\ out' = PerspectiveRHMatrix4(frustum.w, frustum.h, frustum.zn, frustum.zf)
    /\ op' = "PerspectiveRH"
    /\ UNCHANGED <<mat, rhs, det, edits, viewportVars, geomVars, extraVars>>

\* OrthographicRHMatrix4(w, h, zn, zf)
CallOrthographicRH ==
    /\ op = "none"
    /\ out' = OrthographicRHMatrix4(frustum.w, frustum.h, frustum.zn, frustum.zf)
    /\ op' = "OrthographicRH"
    /\ UNCHANGED <<mat, rhs, det, edits, viewportVars, geomVars, extraVars>>

\* TransformVector3 of the view-space point (x, y, -zn) in front of a camera
\* that looks down the negative z axis
CallTransformNearRH(x, y) ==
    /\ op \in {"PerspectiveRH", "OrthographicRH"}
    /\ pt' = Vector3(F(x), F(y), FNeg(frustum.zn))
    /\ clip' = TransformVector3(pt', out)
    /\ op' = IF op = "PerspectiveRH" THEN "PerspectiveRHNear" ELSE "OrthographicRHNear"
    /\ UNCHANGED <<matrixVars, viewportArgs, scr, yaw, pitch, roll, pln, pt1,
                   upv, frustum, outPlane, extraVars>>

\* TransformVector3 of the view-space point (x, y, -zf)
CallTransformFarRH(x, y) ==
    /\ op \in {"PerspectiveRH", "OrthographicRH"}
    /\ pt' = Vector3(F(x), F(y), FNeg(frustum.zf))
    /\ clip' = TransformVector3(pt', out)
    /\ op' = IF op = "PerspectiveRH" THEN "PerspectiveRHFar" ELSE "OrthographicRHFar"
    /\ UNCHANGED <<matrixVars, viewportArgs, scr, yaw, pitch, roll, pln, pt1,
                   upv, frustum, outPlane, extraVars>>

NextProjectionRH ==
    \/ CallPerspectiveRH
    \/ CallOrthographicRH
    \/ \E x \in EntryValues, y \in EntryValues : CallTransformNearRH(x, y)
    \/ \E x \in EntryValues, y \in EntryValues : CallTransformFarRH(x, y)

SpecProjectionRH == InitProjectionRH /\ [][NextProjectionRH]_vars

\* ------------------------------------------ the reflection specification

InitReflect ==
    /\ MatrixIdle
    /\ ViewportIdle
    /\ op = "none"
    /\ pt = Vector3Default
    /\ scr = Vector3Default
    /\ RotationIdle
    /\ pln \in Planes
    /\ outPlane = PlaneDefault
    /\ LookAtIdle
    /\ PerspectiveIdle
    /\ ExtraIdle

\* ReflectMatrix4(pln)
CallReflect ==
    /\ op = "none"
    /\ out' = ReflectMatrix4(pln)
    /\ op' = "Reflect"
    /\ UNCHANGED <<mat, rhs, det, edits, viewportVars, geomVars, extraVars>>

\* TransformVector3Coord(x, ReflectMatrix4(pln))
CallTransformByReflect(x) ==
    /\ op = "Reflect"
    /\ pt' = x
    /\ scr' = TransformVector3Coord(x, out)
    /\ op' = "ReflectPoint"
    /\ UNCHANGED <<matrixVars, viewportArgs, geomVars, extraVars>>

\* MultiplyMatrix4(ReflectMatrix4(pln), ReflectMatrix4(pln))
CallReflectTwice ==
    /\ op = "Reflect"
    /\ mat' = out
    /\ rhs' = out
    /\ out' = MultiplyMatrix4(out, out)
    /\ op' = "ReflectTwice"
    /\ UNCHANGED <<det, edits, viewportVars, geomVars, extraVars>>

NextReflect ==
    \/ CallReflect
    \/ \E x \in GridPoints : CallTransformByReflect(x)
    \/ CallReflectTwice

SpecReflect == InitReflect /\ [][NextReflect]_vars

\* ---------------------------------- the plane construction specification

InitFromPlane ==
    /\ MatrixIdle
    /\ ViewportIdle
    /\ op = "none"
    /\ pt \in Points
    /\ scr = Vector3Default
    /\ GeomIdle
    /\ ExtraIdle

\* FromPointNormalPlane(pt, normal)
CallFromPointNormalPlane(normal) ==
    /\ op = "none"
    /\ pt1' = normal
    /\ outPlane' = FromPointNormalPlane(pt, normal)
    /\ op' = "FromPointNormalPlane"
    /\ UNCHANGED <<matrixVars, viewportVars, yaw, pitch, roll, pln, upv,
                   frustum, clip, extraVars>>

\* FromPointsPlane(pt, v1, v2)
CallFromPointsPlane(v1, v2) ==
    /\ op = "none"
    /\ pt1' = v1
    /\ upv' = v2
    /\ outPlane' = FromPointsPlane(pt, v1, v2)
    /\ op' = "FromPointsPlane"
    /\ UNCHANGED <<matrixVars, viewportVars, yaw, pitch, roll, pln,
                   frustum, clip, extraVars>>

NextFromPlane ==
    \/ \E normal \in Points : CallFromPointNormalPlane(normal)
    \/ \E v1 \in Points, v2 \in Points : CallFromPointsPlane(v1, v2)

SpecFromPlane == InitFromPlane /\ [][NextFromPlane]_vars

\* --------------------------------------------- the vector4 specification

Vectors4 ==
    { Vector4(F(x), F(y), F(z), F(w)) :
        x \in EntryValues, y \in EntryValues, z \in EntryValues, w \in EntryValues }

InitVector4 ==
    /\ MatrixIdle
    /\ ViewportIdle
    /\ op = "none"
    /\ pt = Vector3Default
    /\ scr = Vector3Default
    /\ GeomIdle
    /\ va \in Vectors4
    /\ vb = Vector4Default
    /\ RectangleIdle
    /\ Transformation3DIdle

\* AddVector4(va, b)
CallAddVector4(b) ==
    /\ op = "none"
    /\ vb' = b
    /\ clip' = AddVector4(va, b)
    /\ op' = "AddVector4"
    /\ UNCHANGED <<matrixVars, viewportVars, yaw, pitch, roll, pln, pt1, upv,
                   frustum, outPlane, va, rc, cell, flags, xform>>

\* SubtractVector4(AddVector4(va, vb), vb)
CallSubtractVector4 ==
    /\ op = "AddVector4"
    /\ clip' = SubtractVector4(clip, vb)
    /\ op' = "SubtractVector4"
    /\ UNCHANGED <<matrixVars, viewportVars, yaw, pitch, roll, pln, pt1, upv,
                   frustum, outPlane, extraVars>>

\* NormalizeVector4(va)
CallNormalizeVector4 ==
    /\ op = "none"
    /\ clip' = NormalizeVector4(va)
    /\ op' = "NormalizeVector4"
    /\ UNCHANGED <<matrixVars, viewportVars, yaw, pitch, roll, pln, pt1, upv,
                   frustum, outPlane, extraVars>>

NextVector4 ==
    \/ \E b \in Vectors4 : CallAddVector4(b)
    \/ CallSubtractVector4
    \/ CallNormalizeVector4

SpecVector4 == InitVector4 /\ [][NextVector4]_vars

\* -------------------------------------------- the cofactor specification

\* Operands of InverseMatrix4 with many non-zero entries: the second operands
\* of the matrix specification, each with one entry assigned.
CofactorOperands ==
    { [b EXCEPT ![i] = F(val)] : b \in Operands, i \in 0..15, val \in EntryValues }

InitCofactor ==
    /\ mat \in CofactorOperands
    /\ rhs = Matrix4Default
    /\ out = Matrix4Default
    /\ det = Zero
    /\ edits = 0
    /\ ViewportIdle
    /\ op = "none"
    /\ pt = Vector3Default
    /\ scr = Vector3Default
    /\ GeomIdle
    /\ ExtraIdle

NextCofactor ==
    \/ CallDeterminant
    \/ CallInverse
    \/ CallMultiplyByInverse

SpecCofactor == InitCofactor /\ [][NextCofactor]_vars

\* -------------------------------- the off-center projection specification

\* l < r and b < t, symmetric about the view axis or not.
OffCenterFrustums ==
    { [l |-> F(x), r |-> F(x + a), t |-> F(y + b), b |-> F(y),
       zn |-> F(n), zf |-> F(n + k)] :
        x \in (-1)..MaxOrigin, a \in 1..MaxExtent,
        y \in (-1)..MaxOrigin, b \in 1..MaxExtent,
        n \in 1..MaxNear, k \in 1..MaxDepth }

InitOffCenter ==
    /\ MatrixIdle
    /\ ViewportIdle
    /\ op = "none"
    /\ pt = Vector3Default
    /\ scr = Vector3Default
    /\ RotationIdle
    /\ PlaneIdle
    /\ LookAtIdle
    /\ frustum \in OffCenterFrustums
    /\ clip = Vector4Default
    /\ ExtraIdle

\* PerspectiveOffCenterLHMatrix4(l, r, t, b, zn, zf)
CallPerspectiveOffCenterLH ==
    /\ op = "none"
    /\ out' = PerspectiveOffCenterLHMatrix4(frustum.l, frustum.r, frustum.t,
                                            frustum.b, frustum.zn, frustum.zf)
    /\ op' = "PerspectiveOffCenterLH"
    /\ UNCHANGED <<mat, rhs, det, edits, viewportVars, geomVars, extraVars>>

\* TransformVector3 of a corner (x, y, zn) of the near-plane rectangle
CallTransformNearRectangle(x, y) ==
    /\ op = "PerspectiveOffCenterLH"
    /\ pt' = Vector3(x, y, frustum.zn)
    /\ clip' = TransformVector3(pt', out)
    /\ op' = "NearRectangle"
    /\ UNCHANGED <<matrixVars, viewportArgs, scr, yaw, pitch, roll, pln, pt1,
                   upv, frustum, outPlane, extraVars>>

NextOffCenter ==
    \/ CallPerspectiveOffCenterLH
    \/ \E x \in {frustum.l, frustum.r}, y \in {frustum.b, frustum.t} :
           CallTransformNearRectangle(x, y)

SpecOffCenter == InitOffCenter /\ [][NextOffCenter]_vars

\* ------------------------------------ the normal transform specification

InitNormal ==
    /\ MatrixIdle
    /\ ViewportIdle
    /\ op = "none"
    /\ pt \in Points
    /\ scr = Vector3Default
    /\ GeomIdle
    /\ ExtraIdle

\* TransformVector3Normal(pt, m)
CallTransformNormal(m) ==
    /\ op = "none"
    /\ mat' = m
    /\ scr' = TransformVector3Normal(pt, m)
    /\ op' = "TransformNormal"
    /\ UNCHANGED <<rhs, out, det, edits, pt, viewportArgs, geomVars, extraVars>>

\* TransformVector3Normal(pt, TranslationMatrix4(t.x, t.y, t.z))
CallTransformNormalByTranslation(t) ==
    /\ op = "none"
    /\ pt1' = t
    /\ mat' = TranslationMatrix4(t.x, t.y, t.z)
    /\ scr' = TransformVector3Normal(pt, TranslationMatrix4(t.x, t.y, t.z))
    /\ op' = "TransformNormalByTranslation"
    /\ UNCHANGED <<rhs, out, det, edits, pt, viewportArgs, yaw, pitch, roll,
                   pln, upv, frustum, outPlane, clip, extraVars>>

NextNormal ==
    \/ \E m \in Affines : CallTransformNormal(m)
    \/ \E t \in GridPoints : CallTransformNormalByTranslation(t)

SpecNormal == InitNormal /\ [][NextNormal]_vars

\* --------------------------------- the 3D transformation specification

Centers ==
    { Vector3Default, Vector3(One, Zero, Zero), Vector3(Zero, One, Two) }

Scales ==
    { Vector3(One, One, One), Vector3(Two, Two, Two), Vector3(One, Two, F(3)) }

InitTransformation3D ==
    /\ MatrixIdle
    /\ ViewportIdle
    /\ op = "none"
    /\ pt \in Points
    /\ scr = Vector3Default
    /\ GeomIdle
    /\ ExtraIdle

\* Transformation3DMatrix4(scalingCenter, scale, rotationCenter, angle, pt)
CallTransformation3D(scalingCenter, scale, rotationCenter, angle) ==
    /\ op = "none"
    /\ xform' = [scalingCenter |-> scalingCenter, scale |-> scale,
                 rotationCenter |-> rotationCenter, angle |-> angle]
    /\ out' = Transformation3DMatrix4(scalingCenter, scale, rotationCenter,
                                      angle, pt)
    /\ op' = "Transformation3D"
    /\ UNCHANGED <<mat, rhs, det, edits, viewportVars, geomVars, va, vb, rc,
                   cell, flags>>

NextTransformation3D ==
    \E scalingCenter \in Centers, scale \in Scales, rotationCenter \in Centers,
       angle \in Angles :
        CallTransformation3D(scalingCenter, scale, rotationCenter, angle)

SpecTransformation3D == InitTransformation3D /\ [][NextTransformation3D]_vars

\* ------------------------------------------- the rectangle specification

\* Rectangles with l <= r and t <= b; read as x, y, w, h they have w, h >= 0.
Rectangles ==
    { RectangleLT(l, t, l + w, t + h) :
        l \in 0..MaxOrigin, t \in 0..MaxOrigin, w \in 0..MaxExtent, h \in 0..MaxExtent }

\* Points around and inside every rectangle under either reading.
Cells == (-1)..(2 * (MaxOrigin + MaxExtent) + 1)

InitRectangle ==
    /\ MatrixIdle
    /\ ViewportIdle
    /\ op = "none"
    /\ pt = Vector3Default
    /\ scr = Vector3Default
    /\ GeomIdle
    /\ Vector4Idle
    /\ rc \in Rectangles
    /\ cell = <<0, 0>>
    /\ flags = [contains |-> FALSE, outside |-> FALSE]
    /\ Transformation3DIdle

\* ContainsRectangleLT(rc, x, y)
CallContainsRectangleLT(x, y) ==
    /\ op = "none"
    /\ cell' = <<x, y>>
    /\ flags' = [flags EXCEPT !.contains = ContainsRectangleLT(rc, x, y)]
    /\ op' = "ContainsRectangleLT"
    /\ UNCHANGED <<matrixVars, viewportVars, geomVars, va, vb, rc, xform>>

\* OutsideRectangleLT(rc, x, y) for the same point
CallOutsideRectangleLT ==
    /\ op = "ContainsRectangleLT"
    /\ flags' = [flags EXCEPT !.outside = OutsideRectangleLT(rc, cell[1], cell[2])]
    /\ op' = "OutsideRectangleLT"
    /\ UNCHANGED <<matrixVars, viewportVars, geomVars, va, vb, rc, cell, xform>>

\* ContainsRectangleXY(rc, x, y)
CallContainsRectangleXY(x, y) ==
    /\ op = "none"
    /\ cell' = <<x, y>>
    /\ flags' = [flags EXCEPT !.contains = ContainsRectangleXY(rc, x, y)]
    /\ op' = "ContainsRectangleXY"
    /\ UNCHANGED <<matrixVars, viewportVars, geomVars, va, vb, rc, xform>>

\* OutsideRectangleXY(rc, x, y) for the same point
CallOutsideRectangleXY ==
    /\ op = "ContainsRectangleXY"
    /\ flags' = [flags EXCEPT !.outside = OutsideRectangleXY(rc, cell[1], cell[2])]
    /\ op' = "OutsideRectangleXY"
    /\ UNCHANGED <<matrixVars, viewportVars, geomVars, va, vb, rc, cell, xform>>

NextRectangle ==
    \/ \E x \in Cells, y \in Cells : CallContainsRectangleLT(x, y)
    \/ CallOutsideRectangleLT
    \/ \E x \in Cells, y \in Cells : CallContainsRectangleXY(x, y)
    \/ CallOutsideRectangleXY

SpecRectangle == InitRectangle /\ [][NextRectangle]_vars

\* ------------------------------------------------- reference definitions

\* The permutations of 0..3 and their signs.
Perm4 == { p \in [0..3 -> 0..3] : \A i, j \in 0..3 : i # j => p[i] # p[j] }

SignOf(p) ==
    LET inv == { ij \in (0..3) \X (0..3) : ij[1] < ij[2] /\ p[ij[1]] > p[ij[2]] }
    IN  IF Cardinality(inv) % 2 = 0 THEN One ELSE F(-1)

RECURSIVE LeibnizSum(_, _)
LeibnizSum(S, m) ==
    IF S = {} THEN Zero
    ELSE LET p == CHOOSE q \in S : TRUE
         IN  (SignOf(p) \otimes m[p[0]] \otimes m[4 + p[1]] \otimes m[8 + p[2]]
                  \otimes m[12 + p[3]])
             \oplus LeibnizSum(S \ {p}, m)

\* The general 4x4 determinant: the signed sum over all 24 permutations.
GeneralDeterminant(m) == LeibnizSum(Perm4, m)

\* M[i][j] = sum over k of A[i][k] * B[k][j], in the row-major layout.
StandardProduct(a, b) ==
    [ idx \in 0..15 |->
        LET i == idx \div 4
            j == idx % 4
        IN  a[4 * i] \otimes b[j] \oplus a[4 * i + 1] \otimes b[4 + j]
            \oplus a[4 * i + 2] \otimes b[8 + j] \oplus a[4 * i + 3] \otimes b[12 + j] ]

HasRepeatedRow(m) ==
    \E i, j \in 0..3 : i # j /\ \A k \in 0..3 : m[4 * i + k] = m[4 * j + k]

\* p, carried through world, view and projection, lies in the canonical
\* clip volume: -w <= x, y <= w and 0 <= z <= w, with w > 0.
InViewVolume(p, projection, view, world) ==
    LET c == TransformVector3(p,
                 MultiplyMatrix4(world, MultiplyMatrix4(view, projection)))
    IN  /\ FLe(Zero, c.w) /\ c.w # Zero
        /\ FLe(Zero \ominus c.w, c.x) /\ FLe(c.x, c.w)
        /\ FLe(Zero \ominus c.w, c.y) /\ FLe(c.y, c.w)
        /\ FLe(Zero, c.z) /\ FLe(c.z, c.w)

NonDegenerate(viewport) ==
    viewport.w > 0 /\ viewport.h > 0 /\ viewport.minZ # viewport.maxZ

\* The indices 0..3 without k, in order.
Rest(k) == [n \in 1..3 |-> IF n - 1 < k THEN n - 1 ELSE n]

\* The 3x3 minor of m: the determinant of m without row dr and column dc.
Minor3(m, dr, dc) ==
    LET r == Rest(dr)
        c == Rest(dc)
        e11 == m[4 * r[1] + c[1]]
        e12 == m[4 * r[1] + c[2]]
        e13 == m[4 * r[1] + c[3]]
        e21 == m[4 * r[2] + c[1]]
        e22 == m[4 * r[2] + c[2]]
        e23 == m[4 * r[2] + c[3]]
        e31 == m[4 * r[3] + c[1]]
        e32 == m[4 * r[3] + c[2]]
        e33 == m[4 * r[3] + c[3]]
    IN  FAdd(FSub(FMul(e11, FSub(FMul(e22, e33), FMul(e23, e32))),
                  FMul(e12, FSub(FMul(e21, e33), FMul(e23, e31)))),
             FMul(e13, FSub(FMul(e21, e32), FMul(e22, e31))))

\* The classical adjugate: entry (i, j) is the cofactor of entry (j, i).
Adjugate(m) ==
    [idx \in 0..15 |->
        LET i == idx \div 4
            j == idx % 4
        IN  IF (i + j) % 2 = 0 THEN Minor3(m, j, i) ELSE FNeg(Minor3(m, j, i))]

\* x lies on the segment from p0 to p1.
OnSegment(x, p0, p1) ==
    LET dir == SubtractVector3(p1, p0)
        rel == SubtractVector3(x, p0)
    IN  /\ CrossVector3(rel, dir) = Vector3Default
        /\ FLe(Zero, DotVector3(rel, dir))
        /\ FLe(DotVector3(rel, dir), DotVector3(dir, dir))

FAbs(x) == IF FLt(x, Zero) THEN FNeg(x) ELSE x

\* The two points are strictly on opposite sides / on the same side of p.
OppositeSides(p, p0, p1) ==
    FLt(DotPlaneCoordinate(p, p0) \otimes DotPlaneCoordinate(p, p1), Zero)

SameSide(p, p0, p1) ==
    FLt(Zero, DotPlaneCoordinate(p, p0) \otimes DotPlaneCoordinate(p, p1))

\* ------------------------------------------------------------------ claims

\* C1: for every non-singular matrix M (general determinant non-zero),
\* MultiplyMatrix4(M, InverseMatrix4(M)) is the identity matrix.
C1_InverseIsRightInverse ==
    (op = "MultiplyByInverse" /\ GeneralDeterminant(mat) # Zero)
        => out = Matrix4Default

\* C2: DeterminantMatrix4(M) equals the general 4x4 determinant, the signed
\* sum over all 24 permutations, for every matrix M.
C2_DeterminantIsGeneral ==
    op = "Determinant" => det = GeneralDeterminant(mat)

\* C3: DeterminantMatrix4(M) is zero for every matrix M in which two of the
\* four rows are identical.
C3_RepeatedRowDeterminantZero ==
    (op = "Determinant" /\ HasRepeatedRow(mat)) => det = Zero

\* C4: for every singular matrix M (general determinant zero, e.g. two equal
\* rows), InverseMatrix4(M) returns exactly the identity matrix.
C4_SingularInverseIsIdentity ==
    (op = "Inverse" /\ GeneralDeterminant(mat) = Zero) => out = Matrix4Default

\* C5: InverseMatrix4(M) returns the identity matrix if and only if
\* DeterminantMatrix4(M) is exactly 0 or the scaled cofactor matrix is itself
\* the identity; whenever the determinant is not 0 it returns the cofactor
\* matrix with every entry divided by DeterminantMatrix4(M), a finite value.
C5_InverseGuard ==
    op = "Inverse" =>
        LET d == DeterminantMatrix4(mat)
            c == InverseMatrix4Cofactors(mat)
            scaled == [i \in 0..15 |-> FDiv(c[i], d)]
        IN  /\ (out = Matrix4Default) <=> (d = Zero \/ scaled = Matrix4Default)
            /\ d # Zero => out = scaled
            /\ \A i \in 0..15 : IsFinite(out[i])

\* C5 witness: the guard is taken for a matrix that is not the identity.
C5_Witness ==
    /\ op = "Inverse"
    /\ DeterminantMatrix4(mat) = Zero
    /\ mat # Matrix4Default
    /\ out = Matrix4Default

\* C6: UnprojectViewport(ProjectViewport(p, vp, P, V, W), vp, P, V, W) = p
\* for every non-degenerate viewport, invertible P, V, W and p inside the
\* view volume.
C6_UnprojectInvertsProject ==
    ( /\ op = "Unproject"
      /\ NonDegenerate(vp)
      /\ GeneralDeterminant(projM) # Zero
      /\ GeneralDeterminant(viewM) # Zero
      /\ GeneralDeterminant(worldM) # Zero
      /\ InViewVolume(pt, projM, viewM, worldM) )
        => scr = pt

\* C7: ProjectViewport(v, vp, P, V, W) applies world, then view, then
\* projection, then the viewport matrix N: its result is
\* TransformVector3Coord(v, W*V*P*N).
C7_ProjectOrder ==
    op = "Project" =>
        scr = TransformVector3Coord(pt,
                  MultiplyMatrix4(worldM, MultiplyMatrix4(viewM,
                      MultiplyMatrix4(projM, ViewportMatrix(vp)))))

\* C8: MultiplyMatrix4(A, B) is the standard matrix product in the row-major
\* layout: result.n[4*i+j] = sum over k of A.n[4*i+k] * B.n[4*k+j].
C8_MultiplyIsStandardProduct ==
    /\ op = "Multiply" => out = StandardProduct(mat, rhs)
    /\ op = "MultiplyLeft" => out = StandardProduct(rhs, mat)

\* C8 witness: a product of two matrices neither of which is the identity.
C8_Witness ==
    /\ op = "Multiply"
    /\ mat # Matrix4Default
    /\ rhs # Matrix4Default
    /\ out # MultiplyMatrix4(rhs, mat)

\* C9: the zero-argument Matrix4() is the two-sided multiplicative identity:
\* MultiplyMatrix4(M, Matrix4()) = M and MultiplyMatrix4(Matrix4(), M) = M.
C9_IdentityIsNeutral ==
    /\ (op = "Multiply" /\ rhs = Matrix4Default) => out = mat
    /\ (op = "MultiplyLeft" /\ rhs = Matrix4Default) => out = mat

\* C9 witness: Matrix4() multiplied from the left onto an edited matrix.
C9_Witness ==
    /\ op = "MultiplyLeft"
    /\ rhs = Matrix4Default
    /\ edits = MaxEdits
    /\ mat # Matrix4Default

\* C10: TransposeMatrix4 swaps rows and columns, result.n[4*i+j] = M.n[4*j+i],
\* and applying it twice gives M back entry for entry.
C10_TransposeInvolution ==
    /\ op = "Transpose" =>
           \A i, j \in 0..3 : out[4 * i + j] = mat[4 * j + i]
    /\ op = "TransposeTwice" => out = mat

\* C10 witness: a matrix that is not symmetric, transposed twice.
C10_Witness ==
    /\ op = "TransposeTwice"
    /\ mat # TransposeMatrix4(mat)

\* C11: the determinant DeterminantMatrix4 returns for RotationXMatrix4 of
\* any angle is 1.
C11_RotationXDeterminantOne ==
    op = "RotationXDeterminant" => det = One

\* C12: RotationXMatrix4 of any angle times its transpose is the identity.
C12_RotationXOrthogonal ==
    op = "RotationXTimesTranspose" => out = Matrix4Default

\* A rotation by an angle that is no multiple of pi/2 has been multiplied by
\* its transpose.
C12_Witness ==
    /\ op = "RotationXTimesTranspose"
    /\ pitch = <<2, 1>>
    /\ mat[5] = Flt(3, 5) /\ mat[6] = Flt(4, 5) /\ mat[9] = Flt(-4, 5)
    /\ rhs[6] = Flt(-4, 5)
    /\ out = Matrix4Default

\* C16: RotationYawPitchRollMatrix4(y, p, r) is the product of the roll
\* rotation about z, then the pitch rotation about x, then the yaw rotation
\* about y: Rz(r) * (Rx(p) * Ry(y)).
C16_YawPitchRollOrder ==
    op = "RotationYawPitchRoll" =>
        out = StandardProduct(RotationZMatrix4(roll),
                  StandardProduct(RotationXMatrix4(pitch), RotationYMatrix4(yaw)))

\* Three different non-zero angles have been composed, about three axes.
C16_Witness ==
    /\ op = "RotationYawPitchRoll"
    /\ yaw = <<1, 1>> /\ pitch = <<2, 1>> /\ roll = <<1, 2>>
    /\ out = StandardProduct(RotationZMatrix4(<<1, 2>>),
                  StandardProduct(RotationXMatrix4(<<2, 1>>), RotationYMatrix4(<<1, 1>>)))
    /\ out # StandardProduct(RotationZMatrix4(<<1, 1>>),
                  StandardProduct(RotationXMatrix4(<<2, 1>>), RotationYMatrix4(<<1, 2>>)))

\* C17: RotationYawPitchRollMatrix4(0, 0, 0) is exactly the identity.
C17_YawPitchRollZeroIsIdentity ==
    (op = "RotationYawPitchRoll" /\ yaw = AngleZero /\ pitch = AngleZero
        /\ roll = AngleZero) => out = Matrix4Default

C17_Witness ==
    /\ op = "RotationYawPitchRoll"
    /\ yaw = AngleZero /\ pitch = AngleZero /\ roll = AngleZero
    /\ Cosf(yaw) = One /\ Sinf(yaw) = Zero
    /\ out = Matrix4Default

\* C13: NormalizePlane divides all four components by the length of the
\* normal (a, b, c): the result has a unit normal and every point on the
\* plane is on the result.
C13_NormalizePlaneSameSurface ==
    (op = "NormalizePlane" /\ Vector3(pln.a, pln.b, pln.c) # Vector3Default) =>
        LET l == LengthVector3(Vector3(pln.a, pln.b, pln.c))
        IN  /\ outPlane = Plane(FDiv(pln.a, l), FDiv(pln.b, l), FDiv(pln.c, l),
                                FDiv(pln.d, l))
            /\ LengthVector3(Vector3(outPlane.a, outPlane.b, outPlane.c)) = One
            /\ \A x \in GridPoints :
                   DotPlaneCoordinate(pln, x) = Zero =>
                       DotPlaneCoordinate(outPlane, x) = Zero

\* C14: for two points strictly on opposite sides of the plane,
\* LineIntersectPlane returns a point of the segment between them that lies
\* on the plane.
C14_IntersectionOnPlane ==
    (op = "LineIntersectPlane" /\ OppositeSides(pln, pt, pt1)) =>
        /\ DotPlaneCoordinate(pln, scr) = Zero
        /\ OnSegment(scr, pt, pt1)

\* C15: for two points on the same side of the plane, LineIntersectPlane
\* returns one of the two, the one nearer to the plane.
C15_SameSideNearerEnd ==
    (op = "LineIntersectPlane" /\ Vector3(pln.a, pln.b, pln.c) # Vector3Default
        /\ SameSide(pln, pt, pt1)) =>
        /\ scr \in {pt, pt1}
        /\ FLe(FAbs(DotPlaneCoordinate(pln, scr)), FAbs(DotPlaneCoordinate(pln, pt)))
        /\ FLe(FAbs(DotPlaneCoordinate(pln, scr)), FAbs(DotPlaneCoordinate(pln, pt1)))

\* C18: vectors are rows multiplied on the left: transforming by the product
\* A * B of two affine matrices is transforming by A and then by B, and
\* transforming by TranslationMatrix4(x, y, z), which holds the offsets in
\* entries 12, 13, 14, adds (x, y, z).
C18_RowVectorComposition ==
    /\ op = "TransformByProduct" =>
           scr = TransformVector3Coord(TransformVector3Coord(pt, mat), rhs)
    /\ op = "TransformByTranslation" =>
           /\ scr = AddVector3(pt, pt1)
           /\ out = [Matrix4Default EXCEPT ![12] = pt1.x, ![13] = pt1.y, ![14] = pt1.z]

\* A quarter turn about z followed by a translation has moved (1, 0, 0) to
\* (0, 1, 0) + (1, 2, 3); the other order would give (-2, 2, 3).
C18_Witness ==
    /\ op = "TransformByProduct"
    /\ mat = RotationZMatrix4(<<1, 1>>)
    /\ rhs = TranslationMatrix4(F(1), F(2), F(3))
    /\ pt = Vector3(One, Zero, Zero)
    /\ scr = Vector3(F(1), F(3), F(3))

\* C19: the matrix of LookAtLHMatrix4(eye, at, up) maps the eye to the
\* origin and the target to (0, 0, |at - eye|), straight ahead on +z.
C19_LookAtMapsEyeAndTarget ==
    /\ op = "LookAtEye" => scr = Vector3Default
    /\ op = "LookAtTarget" =>
           scr = Vector3(Zero, Zero, LengthVector3(SubtractVector3(pt1, pt)))

\* The target at the origin, seen from (0, 0, -2) with up = (0, 1, 0), has
\* been mapped to (0, 0, 2).
C19_Witness ==
    /\ op = "LookAtTarget"
    /\ pt = Vector3(Zero, Zero, F(-2))
    /\ pt1 = Vector3Default
    /\ upv = Vector3(Zero, One, Zero)
    /\ out = TranslationMatrix4(Zero, Zero, Two)
    /\ scr = Vector3(Zero, Zero, Two)

\* C20: under PerspectiveLHMatrix4(w, h, zn, zf) the near-plane corners
\* (+-w/2, +-h/2, zn), divided by their w, have x = +-1, y = +-1 and depth 0,
\* and the points of the far plane have depth 1, whatever zn is.
C20_PerspectiveNearCornersAndDepth ==
    /\ op = "NearCorner" =>
           /\ FDiv(clip.x, clip.w) = (IF FLt(pt.x, Zero) THEN F(-1) ELSE One)
           /\ FDiv(clip.y, clip.w) = (IF FLt(pt.y, Zero) THEN F(-1) ELSE One)
           /\ FDiv(clip.z, clip.w) = Zero
    /\ op = "FarPoint" => FDiv(clip.z, clip.w) = One

\* C21: under PerspectiveRHMatrix4 and OrthographicRHMatrix4 a view-space
\* point at z = -zn has depth 0 after the division by w, and a point at
\* z = -zf has depth 1.
C21_RightHandedDepthRange ==
    /\ op \in {"PerspectiveRHNear", "OrthographicRHNear"} =>
           FDiv(clip.z, clip.w) = Zero
    /\ op \in {"PerspectiveRHFar", "OrthographicRHFar"} =>
           FDiv(clip.z, clip.w) = One

\* C22: for a plane with non-zero normal, unit or not, ReflectMatrix4 leaves
\* every point of the plane where it is, and applied twice it is the
\* identity.
C22_ReflectFixesPlane ==
    Vector3(pln.a, pln.b, pln.c) # Vector3Default =>
        /\ (op = "ReflectPoint" /\ DotPlaneCoordinate(pln, pt) = Zero) => scr = pt
        /\ op = "ReflectTwice" => out = Matrix4Default

\* C23: FromPointNormalPlane(point, normal) has the normal as (a, b, c) and
\* d = -dot(normal, point), so the point is on it; FromPointsPlane(v0, v1, v2)
\* has the normal cross(v1 - v0, v2 - v0) and all three points are on it.
C23_ConstructedPlaneHoldsPoints ==
    /\ op = "FromPointNormalPlane" =>
           /\ Vector3(outPlane.a, outPlane.b, outPlane.c) = pt1
           /\ outPlane.d \oplus DotVector3(pt1, pt) = Zero
           /\ DotPlaneCoordinate(outPlane, pt) = Zero
    /\ op = "FromPointsPlane" =>
           /\ Vector3(outPlane.a, outPlane.b, outPlane.c) =
                  CrossVector3(SubtractVector3(pt1, pt), SubtractVector3(upv, pt))
           /\ DotPlaneCoordinate(outPlane, pt) = Zero
           /\ DotPlaneCoordinate(outPlane, pt1) = Zero
           /\ DotPlaneCoordinate(outPlane, upv) = Zero

\* Three points of the plane z = 1 that are not on one line have given the
\* plane (0, 0, 1, -1).
C23_Witness ==
    /\ op = "FromPointsPlane"
    /\ pt = Vector3(Zero, Zero, One)
    /\ pt1 = Vector3(One, Zero, One)
    /\ upv = Vector3(Zero, One, One)
    /\ outPlane = Plane(Zero, Zero, One, F(-1))

\* C24: SubtractVector4 is the difference in all four components, so
\* subtracting b from AddVector4(a, b) gives a back.
C24_SubtractUndoesAdd ==
    op = "SubtractVector4" => clip = va

\* C27: NormalizeVector4(a) is the zero vector only for a = 0; for any other
\* a it has length 1 and the direction of a.
C27_NormalizeVector4Unit ==
    op = "NormalizeVector4" =>
        IF va = Vector4Default
        THEN clip = Vector4Default
        ELSE /\ DotVector4(clip, clip) = One
             /\ FLt(Zero, DotVector4(va, clip))
             /\ DotVector4(va, clip) \otimes DotVector4(va, clip) = DotVector4(va, va)

\* C25: each of the sixteen entries InverseMatrix4 computes before it scales
\* is the entry of the classical adjugate: entry 4*i+j is (-1)^(i+j) times
\* the minor of M without row j and column i.
C25_CofactorsAreAdjugate ==
    op = "Inverse" =>
        \A i \in 0..3, j \in 0..3 :
            InverseMatrix4Cofactors(mat)[4 * i + j] = Adjugate(mat)[4 * i + j]

\* C26: under PerspectiveOffCenterLHMatrix4 the near-plane points with x = l
\* and x = r have x = -1 and x = +1 after the division by w, and those with
\* y = b and y = t have y = -1 and y = +1, symmetric frustum or not.
C26_OffCenterNearRectangle ==
    op = "NearRectangle" =>
        /\ FDiv(clip.x, clip.w) = (IF pt.x = frustum.l THEN F(-1) ELSE One)
        /\ FDiv(clip.y, clip.w) = (IF pt.y = frustum.b THEN F(-1) ELSE One)

\* C28: TransformVector3Normal(v, m) does not depend on the translation
\* entries n[12], n[13], n[14] of m; by a translation matrix it returns v.
C28_NormalIgnoresTranslation ==
    /\ op = "TransformNormal" =>
           scr = TransformVector3Normal(pt,
                     [mat EXCEPT ![12] = Zero, ![13] = Zero, ![14] = Zero])
    /\ op = "TransformNormalByTranslation" => scr = pt

\* C29: with both centers at the origin and angle 0, Transformation3DMatrix4
\* scales by all three components of scale and then translates; with scale
\* (1, 1, 1) as well it is TranslationMatrix4(translation).
C29_Transformation3DNeutral ==
    (op = "Transformation3D" /\ xform.scalingCenter = Vector3Default
        /\ xform.rotationCenter = Vector3Default /\ xform.angle = AngleZero) =>
        /\ out = StandardProduct(
                     ScalingMatrix4(xform.scale.x, xform.scale.y, xform.scale.z),
                     TranslationMatrix4(pt.x, pt.y, pt.z))
        /\ xform.scale = Vector3(One, One, One) =>
               out = TranslationMatrix4(pt.x, pt.y, pt.z)

\* C30: for a rectangle with l <= r and t <= b (w, h >= 0) and any point,
\* exactly one of the containment test and the outside test is true, in the
\* LT and in the XY variant.
C30_ContainsOrOutside ==
    op \in {"OutsideRectangleLT", "OutsideRectangleXY"} =>
        flags.contains # flags.outside

====
